---- MODULE Spec2Model ----
(***************************************************************************)
(* CustomDecisionTree of Workshops/Workshop8.ipynb: fit / _build_tree /    *)
(* _information_gain / _entropy / predict / _predict_single, and the       *)
(* notebook cells that construct the model, fit it and predict with it.    *)
(*                                                                         *)
(* Representation.                                                         *)
(*   X            a sequence of rows, a row a sequence of feature values;  *)
(*                the code's 0-based feature_idx f is element f+1 of a row *)
(*   y            a sequence of non-negative integer labels                *)
(*   a tree       [class |-> c]  or                                        *)
(*                [feature_idx, threshold, left_tree, right_tree]          *)
(*   None (tree)  NoTree                                                   *)
(*   None (int)   <<>>, an int d is <<d>>                                  *)
(*   an exception [error |-> "<its Python class>"] returned in place of    *)
(*                the value; every caller passes it up unchanged           *)
(*                                                                         *)
(* State.                                                                  *)
(*   max_depth, tree    the attributes of the CustomDecisionTree object    *)
(*   X_train, y_train   the training set the notebook passes to fit        *)
(*   last_call          the method called last: "init", "load", "fit" or   *)
(*                      "predict"                                          *)
(*   call_X, returned   the argument of that call of predict and the list  *)
(*                      it returned (<<>> when the call was not predict,   *)
(*                      returned also <<>> when predict raised)            *)
(*   raised             the class of the exception the last call raised,   *)
(*                      or "none"                                          *)
(***************************************************************************)
EXTENDS Integers, Sequences, FiniteSets, TLC

VARIABLES max_depth, tree, X_train, y_train, last_call, call_X, returned, raised

vars == <<max_depth, tree, X_train, y_train, last_call, call_X, returned, raised>>

(* ------------------------------ bounds -------------------------------- *)

\* Largest number of rows of a training set.
MaxRows == 3

\* Largest number of rows of a training set in the specification that reloads data.
MaxRefitRows == 2

\* Depth at which the interpreter gives up a recursion (RecursionError).  Every
\* recursion of _build_tree that ends on these training sets ends by depth
\* MaxRows - 1; one that passes RecursionLimit repeats the same (X, y) for ever.
RecursionLimit == 4

Values == {1, 2}

Labels == {0, 1, 2}

TwoLabels == {0, 1}

MaxDepthOptions == {<<>>, <<0>>, <<1>>, <<2>>}

(* --------------------------- Python values ---------------------------- *)

NoTree == [nonetype |-> TRUE]

IsNone(t) == "nonetype" \in DOMAIN t

Raise(e) == [error |-> e]

IsError(r) == "error" \in DOMAIN r

\* Truth value of self.max_depth in `self.max_depth and ...`: None and 0 are false.
truthy(md) == md # <<>> /\ md[1] # 0

\* -float('inf'): below every gain the model computes.
NegInf == -1000000000

(* ------------------------------ numpy --------------------------------- *)

RECURSIVE SortSet(_)
SortSet(S) ==
  IF S = {} THEN <<>>
  ELSE LET m == CHOOSE v \in S : \A w \in S : v <= w
       IN  <<m>> \o SortSet(S \ {m})

\* np.unique(a): the distinct values of a, ascending.
unique(a) == SortSet({a[i] : i \in 1..Len(a)})

\* X[:, feature_idx]
column(X, feature_idx) == [i \in 1..Len(X) |-> X[i][feature_idx + 1]]

\* a[mask] for a boolean mask: the elements of a where mask holds, in order.
RECURSIVE compress_from(_, _, _)
compress_from(a, mask, i) ==
  IF i > Len(a) THEN <<>>
  ELSE (IF mask[i] THEN <<a[i]>> ELSE <<>>) \o compress_from(a, mask, i + 1)

compress(a, mask) == compress_from(a, mask, 1)

\* X[idx] for an integer array idx: row idx[k] of X (0-based) for each k;
\* an index past the last row raises IndexError.
index_rows(X, idx) ==
  IF \E k \in 1..Len(idx) : idx[k] >= Len(X)
  THEN Raise("IndexError")
  ELSE [rows |-> [k \in 1..Len(idx) |-> X[idx[k] + 1]]]

\* np.bincount(y): element c+1 counts the occurrences of label c, for c in 0..max(y).
bincount(y) ==
  IF y = <<>> THEN <<>>
  ELSE LET mx == CHOOSE v \in {y[i] : i \in 1..Len(y)} :
                   \A i \in 1..Len(y) : y[i] <= v
       IN  [j \in 1..(mx + 1) |-> Cardinality({i \in 1..Len(y) : y[i] = j - 1})]

\* np.bincount(y).argmax(): the first index of the largest count; ValueError on
\* an empty array.
bincount_argmax(y) ==
  IF y = <<>> THEN Raise("ValueError")
  ELSE LET c == bincount(y)
       IN  [class |-> (CHOOSE j \in 1..Len(c) :
                         /\ \A i \in 1..Len(c) : c[i] <= c[j]
                         /\ \A i \in 1..(j - 1) : c[i] < c[j]) - 1]

RECURSIVE SumSeq(_)
SumSeq(s) == IF s = <<>> THEN 0 ELSE Head(s) + SumSeq(Tail(s))

(* ----------------------- _entropy, _information_gain ------------------ *)

\* -p * log2(p + 1e-9) for p = k / n, in millionths of a bit, rounded.
\* At this resolution the gains of any two candidate splits of a node of at
\* most 4 rows compare as the float64 values do: they are equal exactly when
\* the two splits hold the same label counts, and differ by 0.12 bit or more
\* otherwise.
PLog2(k, n) ==
  CASE k = 0 -> 0
    [] k = n -> 0
    [] n = 2 /\ k = 1 -> 500000
    [] n = 3 /\ k = 1 -> 528321
    [] n = 3 /\ k = 2 -> 389975
    [] n = 4 /\ k = 1 -> 500000
    [] n = 4 /\ k = 2 -> 500000
    [] n = 4 /\ k = 3 -> 311278

\* On an empty y, bincount is empty and the sum over no terms is 0.
_entropy(y) ==
  LET c == bincount(y)
  IN  SumSeq([j \in 1..Len(c) |-> PLog2(c[j], Len(y))])

\* len(parent) times the code's gain: the weights len(left)/len(parent) and
\* len(right)/len(parent) are kept as integers.  Gains are only compared
\* between candidates of one node, which share len(parent).
_information_gain(parent, left, right) ==
  Len(parent) * _entropy(parent)
    - (Len(left) * _entropy(left) + Len(right) * _entropy(right))

(* ------------------------------ split search -------------------------- *)

num_features(X) == Len(X[1])

RECURSIVE candidates_from(_, _)
\* The (feature_idx, threshold) pairs in the order of the two nested loops.
candidates_from(X, feature_idx) ==
  IF feature_idx >= num_features(X) THEN <<>>
  ELSE LET thresholds == unique(column(X, feature_idx))
       IN  [k \in 1..Len(thresholds) |->
              [feature_idx |-> feature_idx, threshold |-> thresholds[k]]]
           \o candidates_from(X, feature_idx + 1)

candidates(X) == candidates_from(X, 0)

left_mask(X, feature_idx, threshold) ==
  [i \in 1..Len(X) |-> X[i][feature_idx + 1] <= threshold]

\* One pass of the inner loop body up to the gain.
evaluate(X, y, c) ==
  LET lm      == left_mask(X, c.feature_idx, c.threshold)
      left_y  == compress(y, lm)
      right_y == compress(y, [i \in 1..Len(X) |-> ~lm[i]])
  IN  [feature_idx |-> c.feature_idx, threshold |-> c.threshold,
       left_y |-> left_y, right_y |-> right_y,
       info_gain |-> _information_gain(y, left_y, right_y)]

\* A split search that lets a later candidate of equal gain replace the best.
improves_or_ties(info_gain, best_info_gain) == info_gain >= best_info_gain

\* if info_gain > best_info_gain
improves(info_gain, best_info_gain) == info_gain > best_info_gain

RECURSIVE scan(_, _, _, _, _)
scan(X, y, cands, k, best) ==
  IF k > Len(cands) THEN best
  ELSE LET e == evaluate(X, y, cands[k])
       IN  scan(X, y, cands, k + 1,
                IF improves(e.info_gain, best.best_info_gain)
                THEN [best_info_gain |-> e.info_gain,
                      best_split |-> <<[feature_idx |-> e.feature_idx,
                                        threshold |-> e.threshold,
                                        left_y |-> e.left_y,
                                        right_y |-> e.right_y]>>]
                ELSE best)

\* best_split is <<>> for None, <<s>> for the dict s.
split_search(X, y) ==
  scan(X, y, candidates(X), 1, [best_info_gain |-> NegInf, best_split |-> <<>>])

(* ------------------------------ _build_tree --------------------------- *)

\* The arguments of the recursive call for the left subtree.
left_call(X, best_split, depth) ==
  LET r == index_rows(X, best_split.left_y)
  IN  IF IsError(r) THEN r
      ELSE [X |-> r.rows, y |-> best_split.left_y, depth |-> depth + 1]

\* The arguments of the recursive call for the right subtree.
right_call(X, best_split, depth) ==
  LET r == index_rows(X, best_split.right_y)
  IN  IF IsError(r) THEN r
      ELSE [X |-> r.rows, y |-> best_split.right_y, depth |-> depth + 1]

\* The two stopping conditions tested before the split search.
is_pure(y) == Len(unique(y)) = 1

at_limit(md, X, depth) == Len(X) = 0 \/ (truthy(md) /\ depth >= md[1])

RECURSIVE _build_tree(_, _, _, _)
_build_tree(md, X, y, depth) ==
  IF depth > RecursionLimit THEN Raise("RecursionError")
  ELSE IF is_pure(y) THEN [class |-> unique(y)[1]]
  ELSE IF at_limit(md, X, depth) THEN bincount_argmax(y)
  ELSE LET s == split_search(X, y)
       IN  IF s.best_split = <<>> THEN bincount_argmax(y)
           ELSE LET best_split == s.best_split[1]
                    lc == left_call(X, best_split, depth)
                IN  IF IsError(lc) THEN lc
                    ELSE LET left_tree == _build_tree(md, lc.X, lc.y, lc.depth)
                         IN  IF IsError(left_tree) THEN left_tree
                             ELSE LET rc == right_call(X, best_split, depth)
                                  IN  IF IsError(rc) THEN rc
                                      ELSE LET right_tree ==
                                                 _build_tree(md, rc.X, rc.y, rc.depth)
                                           IN  IF IsError(right_tree) THEN right_tree
                                               ELSE [feature_idx |-> best_split.feature_idx,
                                                     threshold |-> best_split.threshold,
                                                     left_tree |-> left_tree,
                                                     right_tree |-> right_tree]

\* A fit that drops the tree it held when the construction raises.
fit_assign_clears(old_tree, built) == IF IsError(built) THEN NoTree ELSE built

\* self.tree = self._build_tree(X, y): the assignment happens only when the
\* right-hand side returns.
fit_assign(old_tree, built) == IF IsError(built) THEN old_tree ELSE built

(* ------------------------------ predict ------------------------------- *)

\* A traversal that sends a value equal to the threshold to the right.
routes_left_strict(feature_val, threshold) == feature_val < threshold

\* if feature_val <= tree['threshold']
routes_left(feature_val, threshold) == feature_val <= threshold

RECURSIVE _predict_single(_, _)
_predict_single(x, t) ==
  IF "class" \in DOMAIN t THEN t.class
  ELSE IF routes_left(x[t.feature_idx + 1], t.threshold)
       THEN _predict_single(x, t.left_tree)
       ELSE _predict_single(x, t.right_tree)

\* [self._predict_single(x, self.tree) for x in X].  With self.tree None the
\* test `'class' in tree` raises TypeError on the first row; with no row the
\* comprehension never calls _predict_single.
predict(t, X) ==
  IF X = <<>> THEN [value |-> <<>>]
  ELSE IF IsNone(t) THEN Raise("TypeError")
  ELSE [value |-> [i \in 1..Len(X) |-> _predict_single(X[i], t)]]

(* --------------------------- inputs ----------------------------------- *)

Rows(m) == [1..m -> Values]

\* The training sets of 1..maxrows rows of m features with labels in labels.
TrainingSets(m, maxrows, labels) ==
  UNION {{[X |-> X, y |-> y] : X \in [1..n -> Rows(m)], y \in [1..n -> labels]}
         : n \in 1..maxrows}

\* Every row of m features, one after another.
RECURSIVE Power(_, _)
Power(b, e) == IF e = 0 THEN 1 ELSE b * Power(b, e - 1)

AllRows(m) ==
  LET v == SortSet(Values)
  IN  [k \in 1..Power(Len(v), m) |->
         [f \in 1..m |-> v[1 + (((k - 1) \div Power(Len(v), f - 1)) % Len(v))]]]

\* The batches predict is called with: no row, the training matrix, and every
\* row there is.
TestBatches(X) == {<<>>, X, AllRows(num_features(X))}

(* --------------------------- the notebook ----------------------------- *)

InitWith(pool) ==
  /\ max_depth \in MaxDepthOptions
  /\ \E d \in pool : X_train = d.X /\ y_train = d.y
  /\ tree = NoTree
  /\ last_call = "init"
  /\ call_X = <<>>
  /\ returned = <<>>
  /\ raised = "none"

Init == InitWith(TrainingSets(2, MaxRows, TwoLabels))

InitThreeClass == InitWith(TrainingSets(2, MaxRows, Labels))

InitRefit == InitWith(TrainingSets(1, MaxRefitRows, Labels))

\* custom_tree.fit(X_train, y_train)
Fit ==
  LET built == _build_tree(max_depth, X_train, y_train, 0)
  IN  /\ tree' = fit_assign(tree, built)
      /\ last_call' = "fit"
      /\ call_X' = <<>>
      /\ returned' = <<>>
      /\ raised' = IF IsError(built) THEN built.error ELSE "none"
      /\ UNCHANGED <<max_depth, X_train, y_train>>

\* custom_tree.predict(X)
Predict ==
  \E X \in TestBatches(X_train) :
    LET r == predict(tree, X)
    IN  /\ last_call' = "predict"
        /\ call_X' = X
        /\ returned' = IF IsError(r) THEN <<>> ELSE r.value
        /\ raised' = IF IsError(r) THEN r.error ELSE "none"
        /\ UNCHANGED <<max_depth, tree, X_train, y_train>>

\* X_train, y_train are assigned a new training set.
LoadData ==
  \E d \in TrainingSets(1, MaxRefitRows, Labels) :
    /\ X_train' = d.X
    /\ y_train' = d.y
    /\ last_call' = "load"
    /\ call_X' = <<>>
    /\ returned' = <<>>
    /\ raised' = "none"
    /\ UNCHANGED <<max_depth, tree>>

Next == Fit \/ Predict

Spec == Init /\ [][Next]_vars

SpecThreeClass == InitThreeClass /\ [][Next]_vars

NextRefit == LoadData \/ Fit \/ Predict

SpecRefit == InitRefit /\ [][NextRefit]_vars

(* ===================== properties of the classifier =================== *)

\* No two rows with identical feature values carry different labels.
Consistent(X, y) ==
  \A i \in 1..Len(X) : \A j \in 1..Len(X) : X[i] = X[j] => y[i] = y[j]

\* The labels of the rows of X whose value at feature f is <= t (keep = TRUE)
\* or > t (keep = FALSE), in row order; and those rows.
RECURSIVE PartLabels(_, _, _, _, _)
PartLabels(X, y, f, t, keep) ==
  IF X = <<>> THEN <<>>
  ELSE (IF (X[1][f + 1] <= t) = keep THEN <<y[1]>> ELSE <<>>)
       \o PartLabels(Tail(X), Tail(y), f, t, keep)

RECURSIVE PartRows(_, _, _, _)
PartRows(X, f, t, keep) ==
  IF X = <<>> THEN <<>>
  ELSE (IF (X[1][f + 1] <= t) = keep THEN <<X[1]>> ELSE <<>>)
       \o PartRows(Tail(X), f, t, keep)

\* The most frequent label of y, the smallest one among equally frequent labels.
Occurrences(y, c) == Cardinality({i \in 1..Len(y) : y[i] = c})

MajorityLabel(y) ==
  CHOOSE c \in {y[i] : i \in 1..Len(y)} :
    \A d \in {y[i] : i \in 1..Len(y)} :
      \/ Occurrences(y, d) < Occurrences(y, c)
      \/ (Occurrences(y, d) = Occurrences(y, c) /\ c <= d)

IsLeaf(t) == DOMAIN t = {"class"}

IsInternal(t) == DOMAIN t = {"feature_idx", "threshold", "left_tree", "right_tree"}

\* A completely built tree: leaves and internal nodes all the way down.
RECURSIVE Complete(_)
Complete(t) ==
  \/ IsLeaf(t) /\ t.class \in Nat
  \/ /\ IsInternal(t)
     /\ t.feature_idx \in Nat
     /\ Complete(t.left_tree)
     /\ Complete(t.right_tree)

RECURSIVE Height(_)
Height(t) ==
  IF IsInternal(t)
  THEN 1 + (IF Height(t.left_tree) >= Height(t.right_tree)
            THEN Height(t.left_tree) ELSE Height(t.right_tree))
  ELSE 0

\* The node a path of "L" / "R" turns leads to from t.
RECURSIVE NodeAt(_, _)
NodeAt(t, path) ==
  IF path = <<>> THEN t
  ELSE NodeAt(IF Head(path) = "L" THEN t.left_tree ELSE t.right_tree, Tail(path))

PathsOf(t) == UNION {[1..k -> {"L", "R"}] : k \in 0..Height(t)}

\* Row x, routed alone from the root of t, reaches a leaf labelled label: some
\* path of t turns left exactly at the nodes whose threshold is at least the
\* row's value at the node's feature, and ends in that leaf.
RoutedTo(x, t, label) ==
  \E path \in PathsOf(t) :
    /\ \A k \in 1..Len(path) :
         LET node == NodeAt(t, SubSeq(path, 1, k - 1))
         IN  /\ IsInternal(node)
             /\ (path[k] = "L") <=> (x[node.feature_idx + 1] <= node.threshold)
    /\ IsLeaf(NodeAt(t, path))
    /\ NodeAt(t, path).class = label

\* predict returned labels (the last call was predict and it did not raise).
Predicted == last_call = "predict" /\ raised = "none"

Fitted == ~IsNone(tree)

\* fit was the last call; FitDone: and it returned.
FitCalled == last_call = "fit"

FitDone == FitCalled /\ raised = "none"

(* C1: with max_depth unset and a training set in which no two rows with
   identical feature values carry different labels, fit completes, and
   predict on the training matrix returns the training labels. *)
C1_ZeroTrainingError ==
  (max_depth = <<>> /\ Consistent(X_train, y_train)) =>
    /\ FitCalled => raised = "none"
    /\ (Predicted /\ Fitted /\ call_X = X_train) => returned = y_train

(* C2: on a fitted model predict returns one label per input row, in input
   order, the i-th being the label of the leaf that row i alone is routed to
   from the root (value <= threshold goes left, otherwise right). *)
C2_PredictRoutesEachRow ==
  (Predicted /\ Fitted) =>
    /\ Len(returned) = Len(call_X)
    /\ \A i \in 1..Len(call_X) : RoutedTo(call_X[i], tree, returned[i])

\* predict answered a batch of several rows, sent through an internal node,
\* with different labels.
C2_Witness ==
  /\ Predicted /\ Fitted
  /\ Height(tree) >= 2
  /\ Len(call_X) >= 2
  /\ \E i \in 1..Len(returned) : \E j \in 1..Len(returned) : i < j /\ returned[i] # returned[j]

\* Every row is predicted as the majority label of y.
AllMajority(t, X, y) ==
  /\ ~IsError(t)
  /\ \A x \in Rows(num_features(X)) : _predict_single(x, t) = MajorityLabel(y)

(* C3: under max_depth = 0 or under max_depth = 1 the fitted tree never
   splits: every prediction is the global majority label of y.  Stated for
   the training set at hand, when fit returns under both settings: the model
   fitted under one of the two settings predicts the majority label
   everywhere, or the model the other setting builds from the same training
   set does. *)
C3_DepthZeroOrOneNeverSplits ==
  (FitDone /\ max_depth \in {<<0>>, <<1>>}) =>
    LET other == _build_tree(IF max_depth = <<0>> THEN <<1>> ELSE <<0>>,
                             X_train, y_train, 0)
    IN  \/ IsError(other)
        \/ AllMajority(tree, X_train, y_train)
        \/ AllMajority(other, X_train, y_train)

(* C4: fit is atomic.  The model's tree is always absent or completely
   built; a fit that raises leaves the tree it found in place, a fit that
   returns replaces it by the tree built from the training set, and no other
   call changes the tree. *)
C4_FitAtomic ==
  /\ [](IsNone(tree) \/ Complete(tree))
  /\ [][/\ (last_call' = "fit" /\ raised' # "none") => tree' = tree
        /\ (last_call' = "fit" /\ raised' = "none") =>
             /\ tree' = _build_tree(max_depth, X_train, y_train, 0)
             /\ Complete(tree')
        /\ last_call' # "fit" => tree' = tree]_vars

\* A fit raised on a model that held a tree from an earlier fit.
C4_Witness == FitCalled /\ raised # "none" /\ Fitted

(* C5: predict on a model without a tree yields an error for every batch,
   the empty batch included; it never returns a list of labels. *)
C5_PredictBeforeFitRaises ==
  (last_call = "predict" /\ IsNone(tree)) => raised # "none"

(* C6: when a split (f, t) is committed at a node, the left recursive call
   receives exactly the node's rows whose value at f is <= t, with their own
   labels, the right call the remaining rows with theirs, both at depth + 1,
   and the node returned carries f and t.  Stated for the root node. *)
C6_ChildrenReceivePartitions ==
  (FitCalled /\ ~is_pure(y_train) /\ ~at_limit(max_depth, X_train, 0)) =>
    LET s  == split_search(X_train, y_train)
        bs == s.best_split[1]
        f  == bs.feature_idx
        t  == bs.threshold
        lc == left_call(X_train, bs, 0)
        rc == right_call(X_train, bs, 0)
    IN  /\ s.best_split # <<>>
        /\ ~IsError(lc) /\ ~IsError(rc)
        /\ lc.X = PartRows(X_train, f, t, TRUE)
        /\ lc.y = PartLabels(X_train, y_train, f, t, TRUE)
        /\ rc.X = PartRows(X_train, f, t, FALSE)
        /\ rc.y = PartLabels(X_train, y_train, f, t, FALSE)
        /\ lc.depth = 1 /\ rc.depth = 1
        /\ raised = "none" =>
             IsInternal(tree) /\ tree.feature_idx = f /\ tree.threshold = t

\* The candidate splits of a node: a feature and one of the values it takes.
CandidateSet(X) ==
  {[feature_idx |-> f, threshold |-> X[i][f + 1]] :
     f \in 0..(num_features(X) - 1), i \in 1..Len(X)}

\* c comes before d in the scan: features ascending, then thresholds ascending.
Earlier(c, d) ==
  \/ c.feature_idx < d.feature_idx
  \/ c.feature_idx = d.feature_idx /\ c.threshold < d.threshold

GainOf(X, y, c) ==
  _information_gain(y, PartLabels(X, y, c.feature_idx, c.threshold, TRUE),
                       PartLabels(X, y, c.feature_idx, c.threshold, FALSE))

\* c has the greatest gain, and every candidate scanned before it a smaller one.
FirstOfGreatestGain(X, y, c) ==
  LET g == GainOf(X, y, c)
  IN  /\ c \in CandidateSet(X)
      /\ \A d \in CandidateSet(X) :
           LET h == GainOf(X, y, d)
           IN  h <= g /\ (Earlier(d, c) => h < g)

(* C7: the split search picks the candidate of greatest information gain,
   and among candidates of equal greatest gain the first in the scan order
   (features ascending, then thresholds ascending); the fitted root carries
   that split. *)
C7_FirstGreatestGainWins ==
  (FitCalled /\ ~is_pure(y_train)) =>
    LET s  == split_search(X_train, y_train)
        bs == s.best_split[1]
    IN  /\ s.best_split # <<>>
        /\ FirstOfGreatestGain(X_train, y_train,
             [feature_idx |-> bs.feature_idx, threshold |-> bs.threshold])
        /\ raised = "none" =>
             /\ IsInternal(tree)
             /\ tree.feature_idx = bs.feature_idx
             /\ tree.threshold = bs.threshold

\* A fit returned a tree whose root split tied with a later candidate.
C7_Witness ==
  /\ FitDone /\ IsInternal(tree)
  /\ \E d \in CandidateSet(X_train) :
       /\ Earlier([feature_idx |-> tree.feature_idx, threshold |-> tree.threshold], d)
       /\ GainOf(X_train, y_train, d)
            = GainOf(X_train, y_train,
                     [feature_idx |-> tree.feature_idx, threshold |-> tree.threshold])

(* C8: during fit a threshold equal to the largest value of a feature in the
   node (an empty right partition) is never evaluated as a candidate, and no
   committed split has an empty side.  Stated for the root node. *)
C8_MaxThresholdSkipped ==
  (FitCalled /\ ~is_pure(y_train)) =>
    LET cands == candidates(X_train)
        s     == split_search(X_train, y_train)
    IN  /\ \A k \in 1..Len(cands) :
             /\ evaluate(X_train, y_train, cands[k]).right_y # <<>>
             /\ evaluate(X_train, y_train, cands[k]).left_y # <<>>
        /\ s.best_split # <<>> =>
             s.best_split[1].left_y # <<>> /\ s.best_split[1].right_y # <<>>

\* Every feature takes one value in X.
AllConstant(X) ==
  \A f \in 0..(num_features(X) - 1) : \A i \in 1..Len(X) : X[i][f + 1] = X[1][f + 1]

(* C9: a non-empty node that is not pure, is below the depth limit and whose
   features are all constant becomes a Leaf with the majority label, the
   smallest label among equally frequent ones.  Stated for the root node. *)
C9_ConstantNodeBecomesLeaf ==
  (/\ FitCalled
   /\ AllConstant(X_train)
   /\ ~is_pure(y_train)
   /\ ~at_limit(max_depth, X_train, 0)) =>
    raised = "none" /\ tree = [class |-> MajorityLabel(y_train)]

(* C10: fit terminates on every valid training set under every max_depth:
   each chain of recursive calls reaches a stopping condition after finitely
   many splits, so no fit ends by exhausting the interpreter's recursion. *)
C10_RecursionEnds == FitCalled => raised # "RecursionError"

====
